---- MODULE Spec2Model ----
(***************************************************************************)
(* Model of the medal graph pipeline of Homework3:                         *)
(*   - Layout (App.tsx): the medals.csv "complete" callback that builds    *)
(*     graphData = {nodes, links}, and the render gate of <MedalGraph>;    *)
(*   - MedalGraph: the filter state, filteredLinks / filteredNodeIds /     *)
(*     filteredNodes, the force simulation and the drag handlers.          *)
(*                                                                         *)
(* JavaScript strings are sequences of one-character strings, so that the  *)
(* template literal `${a}|${b}|${c}` and key.split("|") are computed       *)
(* character by character.  The value undefined (a missing CSV field) is   *)
(* the one-element sequence Undefined, which no string equals.             *)
(***************************************************************************)
EXTENDS Integers, Sequences, FiniteSets, TLC

VARIABLES
    rows,                \* results.data of medals.csv (one record per row)
    medalsParse,         \* "pending" | "complete" | "error" (Papa.parse)
    graphData,           \* Layout state: [nodes, links]
    selectedCountry,     \* MedalGraph state
    selectedDiscipline,
    selectedMedal,
    minCount,
    showOnlyConnected,
    simNodes,            \* the simulation's nodes: [id, type, fx, fy]
    simPos,              \* their positions: [x, y], by index in simNodes
    alpha,               \* simulation.alpha(), in tenths
    alphaTarget,         \* simulation.alphaTarget(), in tenths
    timer,               \* the simulation's timer: "none" | "running" | "stopped"
    dragging,            \* indices of the nodes with an active drag gesture
    live,                \* the simulation is the one of the current render
                         \* (the layout effect's cleanup is registered)
    size,                \* useContainerSize: [width, height]
    svg,                 \* the graph <svg>: its circles, its lines and the
                         \* transform attribute of the group <g> holding them
    zoom,                \* the transform d3-zoom keeps on the <svg> element
    forces               \* the forces of the simulation, as configured

vars == <<rows, medalsParse, graphData, selectedCountry, selectedDiscipline,
          selectedMedal, minCount, showOnlyConnected,
          simNodes, simPos, alpha, alphaTarget, timer, dragging, live, size,
          svg, zoom, forces>>

domVars == <<svg, zoom, forces>>

simVars == <<simNodes, simPos, alpha, alphaTarget, timer, dragging, live>>

filterVars == <<selectedCountry, selectedDiscipline, selectedMedal, minCount,
                showOnlyConnected>>

-----------------------------------------------------------------------------
(* Bounds of the model *)

MaxRows == 3          \* rows of medals.csv, for the builder
MaxFilterRows == 3    \* rows of medals.csv, for the filter bar
MaxCoord == 1         \* simulation coordinates range over 0..MaxCoord
MaxDetailRows == 2    \* rows of medals.csv, for the links' details
MaxDegree == 20       \* links at the centre of a star, for the radii
MaxWeight == 16       \* records of one link, for the stroke widths
MaxPan == 1           \* the translation of the view ranges over -MaxPan..MaxPan

-----------------------------------------------------------------------------
(* JavaScript values *)

Undefined == <<"#undefined">>

Sep == "|"

\* String(v) as a template literal does it: undefined becomes "undefined".
ToStr(v) ==
    IF v = Undefined
    THEN <<"u", "n", "d", "e", "f", "i", "n", "e", "d">>
    ELSE v

\* `${m.country}|${m.discipline}|${m.medal_type}`
KeyOf(m) ==
    ToStr(m.country) \o <<Sep>> \o ToStr(m.discipline) \o <<Sep>> \o ToStr(m.medal_type)

\* key.split("|"): the segments between separators, in order.
Split(s) ==
    LET F[i \in 0..Len(s)] ==
            IF i = 0 THEN << <<>> >>
            ELSE LET parts == F[i-1]
                 IN  IF s[i] = Sep
                     THEN Append(parts, <<>>)
                     ELSE [parts EXCEPT ![Len(parts)] = Append(@, s[i])]
    IN  F[Len(s)]

\* Array.from(new Set(arr)): first occurrences, in order.
Dedup(arr) ==
    LET F[i \in 0..Len(arr)] ==
            IF i = 0 THEN <<>>
            ELSE LET seen == F[i-1]
                 IN  IF \E j \in 1..Len(seen) : seen[j] = arr[i]
                     THEN seen
                     ELSE Append(seen, arr[i])
    IN  F[Len(arr)]

Range(s) == {s[i] : i \in 1..Len(s)}

\* arr.join(", "): an element that is undefined gives the empty string.
Join(arr) ==
    LET F[i \in 0..Len(arr)] ==
            IF i = 0 THEN <<>>
            ELSE (IF i = 1 THEN <<>> ELSE F[i-1] \o <<",", " ">>)
                 \o (IF arr[i] = Undefined THEN <<>> ELSE arr[i])
    IN  F[Len(arr)]

-----------------------------------------------------------------------------
(* The input domain: field values of a medals.csv row *)

CountryValues    == {<<"a">>, <<"a", "|", "b">>, Undefined}
DisciplineValues == {<<"a">>, <<"b", "|", "a">>, <<"c">>}
MedalValues      == {<<"G">>, <<"S">>}
NameValues       == {<<"x">>, <<"y">>}
EventValues      == {<<"e">>, <<"f">>}

Rows == [country : CountryValues, discipline : DisciplineValues,
         medal_type : MedalValues, name : NameValues, event : EventValues]

\* Rows that differ in nothing but the fields of the grouping key.
OneDetail(r) == r.name = <<"x">> /\ r.event = <<"e">>

RowSeqs(n) == UNION {[1..k -> Rows] : k \in 0..n}

\* The rows drawn for the builder: the disciplines whose keys can collide.
BuildRows == {r \in Rows : r.discipline # <<"c">> /\ OneDetail(r)}

BuildRowSeqs(n) == UNION {[1..k -> BuildRows] : k \in 0..n}

\* The rows drawn for the filter bar: one discipline, every country and medal.
FilterRows == {r \in Rows : r.discipline = <<"c">> /\ OneDetail(r)}

FilterRowSeqs(n) == UNION {[1..k -> FilterRows] : k \in 0..n}

\* The rows drawn for the links' details: one medal, every name and event.
DetailRows ==
    {r \in Rows : /\ r.medal_type = <<"S">>
                  /\ r.country # Undefined
                  /\ r.discipline # <<"c">>}

DetailRowSeqs(n) == UNION {[1..k -> DetailRows] : k \in 0..n}

-----------------------------------------------------------------------------
(* Layout: the medals.csv complete callback *)

countries(parsed)   == Dedup([i \in 1..Len(parsed) |-> parsed[i].country])
disciplines(parsed) == Dedup([i \in 1..Len(parsed) |-> parsed[i].discipline])

nodes(parsed) ==
    [i \in 1..Len(countries(parsed)) |->
        [id |-> countries(parsed)[i], type |-> "country"]]
    \o
    [i \in 1..Len(disciplines(parsed)) |->
        [id |-> disciplines(parsed)[i], type |-> "discipline"]]

\* linkMap as the sequence of its entries in insertion order, which is the
\* order Object.entries enumerates (no key is an array index: each holds "|").
linkMap(parsed) ==
    LET F[i \in 0..Len(parsed)] ==
            IF i = 0 THEN <<>>
            ELSE LET m   == parsed[i]
                     key == KeyOf(m)
                     lm  == F[i-1]
                 IN  IF \E j \in 1..Len(lm) : lm[j].key = key
                     THEN [j \in 1..Len(lm) |->
                              IF lm[j].key = key
                              THEN [lm[j] EXCEPT !.count = @ + 1,
                                                 !.athlete = Append(@, m.name),
                                                 !.event = Append(@, m.event)]
                              ELSE lm[j]]
                     ELSE Append(lm, [key |-> key, count |-> 1,
                                      athlete |-> <<m.name>>,
                                      event |-> <<m.event>>,
                                      medal |-> m.medal_type])
    IN  F[Len(parsed)]

\* const [source, target, medal] = key.split("|")
links(parsed) ==
    LET lm == linkMap(parsed)
    IN  [i \in 1..Len(lm) |->
            LET parts == Split(lm[i].key)
            IN  [source |-> parts[1], target |-> parts[2], medal |-> parts[3],
                 athlete |-> Join(lm[i].athlete),
                 event |-> Join(lm[i].event),
                 count |-> lm[i].count]]

Build(parsed) == [nodes |-> nodes(parsed), links |-> links(parsed)]

EmptyGraph == [nodes |-> <<>>, links |-> <<>>]

\* The render gate with the comparison off by one (>= for >).
MedalGraphMounted_GateOffByOne == Len(graphData.nodes) >= 0

\* {graphData.nodes.length > 0 ? <MedalGraph .../> : <div>Loading...</div>}
MedalGraphMounted == Len(graphData.nodes) > 0

All == <<"A", "l", "l">>

SeqMax(s) ==
    LET F[i \in 0..Len(s)] ==
            IF i = 0 THEN 1
            ELSE LET m == F[i-1] IN IF s[i] > m THEN s[i] ELSE m
    IN  F[Len(s)]

\* Math.max(1, ...links.map((l) => l.count ?? 1))
maxCountOf(ls) == SeqMax([i \in 1..Len(ls) |-> ls[i].count])

\* function clamp(n, lo, hi) { return Math.max(lo, Math.min(hi, n)); }
clamp(n, lo, hi) ==
    LET m == IF hi < n THEN hi ELSE n
    IN  IF lo > m THEN lo ELSE m

\* complete: setGraphData({ nodes, links }).  When the graph has a node,
\* <MedalGraph> is mounted and its effect on [links] runs:
\* setMinCount((c) => clamp(c, 1, maxC)).
ParseComplete ==
    /\ medalsParse = "pending"
    /\ medalsParse' = "complete"
    /\ graphData' = Build(rows)
    /\ minCount' = IF Len(graphData'.nodes) > 0
                   THEN clamp(minCount, 1, maxCountOf(graphData'.links))
                   ELSE minCount
    /\ UNCHANGED <<rows, selectedCountry, selectedDiscipline, selectedMedal,
                   showOnlyConnected, simVars, size, domVars>>

\* error: (err) => console.error(err)
ParseError ==
    /\ medalsParse = "pending"
    /\ medalsParse' = "error"
    /\ UNCHANGED <<rows, graphData, filterVars, simVars, size, domVars>>

-----------------------------------------------------------------------------
(* MedalGraph: the filter (props nodes, links = graphData.nodes, .links) *)

Null == <<"#null">>

\* if (x): a string is truthy unless it is empty; null is falsy.
Truthy(x) == x # Null /\ x # <<>>

\* selectedCountry !== "All" ? selectedCountry : null
Wanted(selected) == IF selected # All THEN selected ELSE Null

\* KeepLink with the threshold comparison inverted (c > minCount).
KeepLink_ThresholdInverted(l, country, discipline, medal, min) ==
    LET wantedCountry    == Wanted(country)
        wantedDiscipline == Wanted(discipline)
        wantedMedal      == Wanted(medal)
    IN  IF Truthy(wantedMedal) /\ l.medal # wantedMedal THEN FALSE
        ELSE IF l.count > min THEN FALSE
        ELSE IF Truthy(wantedCountry)
                /\ ~(l.source = wantedCountry \/ l.target = wantedCountry) THEN FALSE
        ELSE IF Truthy(wantedDiscipline)
                /\ ~(l.source = wantedDiscipline \/ l.target = wantedDiscipline) THEN FALSE
        ELSE TRUE

\* KeepLink with the negation of the focus tests lost.
KeepLink_FocusInverted(l, country, discipline, medal, min) ==
    LET wantedCountry    == Wanted(country)
        wantedDiscipline == Wanted(discipline)
        wantedMedal      == Wanted(medal)
    IN  IF Truthy(wantedMedal) /\ l.medal # wantedMedal THEN FALSE
        ELSE IF l.count < min THEN FALSE
        ELSE IF Truthy(wantedCountry)
                /\ (l.source = wantedCountry \/ l.target = wantedCountry) THEN FALSE
        ELSE IF Truthy(wantedDiscipline)
                /\ (l.source = wantedDiscipline \/ l.target = wantedDiscipline) THEN FALSE
        ELSE TRUE

\* KeepLink with the two focus tests joined by "or": a link is kept when it
\* touches either focus.
KeepLink_FocusDisjunction(l, country, discipline, medal, min) ==
    LET wantedCountry    == Wanted(country)
        wantedDiscipline == Wanted(discipline)
        wantedMedal      == Wanted(medal)
    IN  IF Truthy(wantedMedal) /\ l.medal # wantedMedal THEN FALSE
        ELSE IF l.count < min THEN FALSE
        ELSE IF Truthy(wantedCountry) /\ Truthy(wantedDiscipline)
             THEN \/ l.source = wantedCountry \/ l.target = wantedCountry
                  \/ l.source = wantedDiscipline \/ l.target = wantedDiscipline
        ELSE IF Truthy(wantedCountry)
                /\ ~(l.source = wantedCountry \/ l.target = wantedCountry) THEN FALSE
        ELSE IF Truthy(wantedDiscipline)
                /\ ~(l.source = wantedDiscipline \/ l.target = wantedDiscipline) THEN FALSE
        ELSE TRUE

\* The callback of links.filter: TRUE when the link is kept.
KeepLink(l, country, discipline, medal, min) ==
    LET wantedCountry    == Wanted(country)
        wantedDiscipline == Wanted(discipline)
        wantedMedal      == Wanted(medal)
        src == l.source
        tgt == l.target
        c   == l.count
    IN  IF Truthy(wantedMedal) /\ l.medal # wantedMedal THEN FALSE
        ELSE IF c < min THEN FALSE
        ELSE IF Truthy(wantedCountry)
                /\ ~(src = wantedCountry \/ tgt = wantedCountry) THEN FALSE
        ELSE IF Truthy(wantedDiscipline)
                /\ ~(src = wantedDiscipline \/ tgt = wantedDiscipline) THEN FALSE
        ELSE TRUE

\* filteredLinks as a loop that starts at index 1 and so drops links[0].
filteredLinksOf_SkipFirst(ls, country, discipline, medal, min) ==
    IF ls = <<>> THEN <<>>
    ELSE SelectSeq(Tail(ls), LAMBDA l : KeepLink(l, country, discipline, medal, min))

\* filteredLinks built by putting each kept link at the front of the result.
filteredLinksOf_Reversed(ls, country, discipline, medal, min) ==
    LET kept == SelectSeq(ls, LAMBDA l : KeepLink(l, country, discipline, medal, min))
    IN  [i \in 1..Len(kept) |-> kept[Len(kept) + 1 - i]]

filteredLinksOf(ls, country, discipline, medal, min) ==
    SelectSeq(ls, LAMBDA l : KeepLink(l, country, discipline, medal, min))

filteredNodeIdsOf(fls) ==
    LET ls == fls
    IN  {ls[i].source : i \in 1..Len(ls)} \cup {ls[i].target : i \in 1..Len(ls)}

\* filteredNodes with the test of showOnlyConnected inverted.
filteredNodesOf_FlagInverted(ns, ids, onlyConnected) ==
    IF onlyConnected THEN ns
    ELSE LET has == ids IN SelectSeq(ns, LAMBDA n : n.id \in has)

filteredNodesOf(ns, ids, onlyConnected) ==
    IF ~onlyConnected THEN ns
    ELSE LET has == ids IN SelectSeq(ns, LAMBDA n : n.id \in has)

\* The memoised values of the current render.
filteredLinks ==
    filteredLinksOf(graphData.links, selectedCountry, selectedDiscipline,
                    selectedMedal, minCount)

filteredNodeIds == filteredNodeIdsOf(filteredLinks)

filteredNodes == filteredNodesOf(graphData.nodes, filteredNodeIds, showOnlyConnected)

\* const maxCount = useMemo(() => Math.max(1, ...), [links])
maxCount == maxCountOf(graphData.links)

-----------------------------------------------------------------------------
(* MedalGraph: the force simulation and the drag handlers                  *)
(*                                                                         *)
(* Coordinates are integers of 0..MaxCoord.  The forces (link, charge,     *)
(* collide, center) are not computed: a tick may carry a node that is not  *)
(* pinned to any coordinate.  alpha is counted in tenths; 0 stands for a   *)
(* value below alphaMin.  A tick moves alpha towards alphaTarget by half   *)
(* their distance, rounded up (d3's own rate, 1 - 0.001^(1/300), is        *)
(* smaller; only the direction and the geometric form are kept).           *)
(***************************************************************************)

Coords == 0..MaxCoord

\* fx = null, fy = null: the node is not pinned (no coordinate is negative).
NoPin == 0 - 1

AlphaInitial == 10      \* forceSimulation(): alpha = 1
AlphaMin == 1           \* the timer stops once alpha < alphaMin
AlphaDecayDivisor == 2
AlphaTargetDrag == 2    \* simulation.alphaTarget(0.2)

\* forceSimulation(simNodes) gives each node without coordinates a position
\* that is a function of its index (0-based) alone.
InitialX(i) == i % (MaxCoord + 1)
InitialY(i) == (i \div (MaxCoord + 1)) % (MaxCoord + 1)

\* const simNodes = filteredNodes.map((d) => ({ ...d })): fresh objects,
\* not pinned
NewSimNodes(fns) ==
    [i \in 1..Len(fns) |->
        [id |-> fns[i].id, type |-> fns[i].type, fx |-> NoPin, fy |-> NoPin]]

NewSimPos(fns) ==
    [i \in 1..Len(fns) |-> [x |-> InitialX(i - 1), y |-> InitialY(i - 1)]]

\* The degree table filled from the full link list of the props (links),
\* whatever the visible links are.
degree_FullGraph(fls, id) ==
    LET F[i \in 0..Len(graphData.links)] ==
            IF i = 0 THEN 0
            ELSE F[i-1] + (IF graphData.links[i].source = id THEN 1 ELSE 0)
                        + (IF graphData.links[i].target = id THEN 1 ELSE 0)
    IN  F[Len(graphData.links)]

\* The degree table of the layout effect, read at id: for (const l of
\* filteredLinks) { degree[l.source] = (degree[l.source] || 0) + 1;
\* degree[l.target] = (degree[l.target] || 0) + 1; }, then degree[id] || 0.
degree(fls, id) ==
    LET F[i \in 0..Len(fls)] ==
            IF i = 0 THEN 0
            ELSE F[i-1] + (IF fls[i].source = id THEN 1 ELSE 0)
                        + (IF fls[i].target = id THEN 1 ELSE 0)
    IN  F[Len(fls)]

\* Lengths on the screen (radii, stroke widths) are counted in tenths.
\* clamp(10 + (degree[id] || 0) * 0.8, 12, 24)
rCountry(fls, id) == clamp(100 + degree(fls, id) * 8, 120, 240)

\* clamp(7 + (degree[id] || 0) * 0.6, 9, 18)
rDiscipline(fls, id) == clamp(70 + degree(fls, id) * 6, 90, 180)

\* d.type === "country" ? rCountry(d.id) : rDiscipline(d.id)
radius(fls, d) ==
    IF d.type = "country" THEN rCountry(fls, d.id) ELSE rDiscipline(fls, d.id)

\* forceCollide().radius((d) => (...) + 4)
collideRadius(fls, d) == radius(fls, d) + 40

\* clamp(1.5 + (d.count ?? 1) * 0.3, 1.5, 6)
strokeWidth(count) == clamp(15 + count * 3, 15, 60)

\* A transform of d3-zoom: [k, x, y].  The scale k is counted in quarters,
\* the translation (x, y) in quarters of a pixel; simulation coordinates are
\* whole.
ScaleOne == 4       \* d3.zoomIdentity: k = 1
ScaleMin == 2       \* scaleExtent([0.5, 6])
ScaleMax == 24

Identity == [k |-> ScaleOne, x |-> 0, y |-> 0]

\* An <svg> without children.
EmptySvg == [circles |-> <<>>, lines |-> <<>>, transform |-> Identity]

\* svg.selectAll("*").remove(); const g = svg.append("g"); one <line> per
\* link and one <circle> per node of the visible subgraph, in their order.
\* The new <g> has no transform attribute.
Render(fns, fls) ==
    LET ns == fns
        ls == fls
    IN  [circles |-> [i \in 1..Len(ns) |->
                        [id |-> ns[i].id, type |-> ns[i].type,
                         r |-> radius(ls, ns[i])]],
         lines |-> [i \in 1..Len(ls) |->
                        [source |-> ls[i].source, target |-> ls[i].target,
                         medal |-> ls[i].medal,
                         width |-> strokeWidth(ls[i].count)]],
         transform |-> Identity]

\* Math.max(260, size.height)
HeightOf(sz) == IF sz.height > 260 THEN sz.height ELSE 260

\* The forces with the link force's strength proportional to the count.
ForcesOf_WeightedLinks(fns, fls, sz) ==
    LET ns == fns
        ls == fls
    IN  [linkEnds |-> [i \in 1..Len(ls) |-> <<ls[i].source, ls[i].target>>],
         distance |-> 130,
         strength |-> [i \in 1..Len(ls) |-> 7 * ls[i].count],
         charge   |-> 0 - 260,
         collide  |-> [i \in 1..Len(ns) |-> collideRadius(ls, ns[i])],
         center   |-> [x2 |-> sz.width, y2 |-> HeightOf(sz)]]

\* forceLink(simLinks).id((d) => d.id).distance(130).strength(0.7),
\* forceManyBody().strength(-260), forceCollide().radius(...),
\* forceCenter(width / 2, height / 2).  The strength is in tenths, the
\* centre in halves.
ForcesOf(fns, fls, sz) ==
    LET ns == fns
        ls == fls
    IN  [linkEnds |-> [i \in 1..Len(ls) |-> <<ls[i].source, ls[i].target>>],
         distance |-> 130,
         strength |-> [i \in 1..Len(ls) |-> 7],
         charge   |-> 0 - 260,
         collide  |-> [i \in 1..Len(ns) |-> collideRadius(ls, ns[i])],
         center   |-> [x2 |-> sz.width, y2 |-> HeightOf(sz)]]

\* No simulation has been configured.
NoForces ==
    [linkEnds |-> <<>>, distance |-> 0, strength |-> <<>>, charge |-> 0,
     collide |-> <<>>, center |-> [x2 |-> 0, y2 |-> 0]]

\* useContainerSize: the size before the ResizeObserver has reported, and
\* the sizes it reports.
ZeroSize == [width |-> 0, height |-> 0]

SimSize == [width |-> 1, height |-> 1]

SizeInputs == {ZeroSize, SimSize, [width |-> 1, height |-> 0]}

\* The layout effect runs again when one of its dependencies [filteredNodes,
\* filteredLinks, size.width, size.height] changes: filteredLinks is a new
\* array whenever a filter parameter changes, filteredNodes whenever
\* filteredLinks or showOnlyConnected does.
LayoutDepsChanged == filterVars' # filterVars \/ size' # size

\* if (!filteredNodes.length) return; if (size.width === 0 || size.height
\* === 0) return;  (the tests have no effect, and are taken in any order)
LayoutGuard(fns, sz) == sz.width = 0 \/ sz.height = 0 \/ Len(fns) = 0

\* simulation.stop() as a switch: stopping a stopped timer starts it.
StopTimer_Toggles(t) == IF t = "running" THEN "stopped" ELSE "running"

\* simulation.stop(): the timer is stopped, whether it was running or not.
StopTimer(t) == "stopped"

\* filteredLinks and filteredNodes as the render that follows the state
\* change computes them (from the new state).
nextFilteredLinks ==
    filteredLinksOf(graphData'.links, selectedCountry', selectedDiscipline',
                    selectedMedal', minCount')

nextFilteredNodes ==
    filteredNodesOf(graphData'.nodes, filteredNodeIdsOf(nextFilteredLinks),
                    showOnlyConnected')

\* The layout effect with simNodes given the coordinates their nodes had in
\* the previous simulation (x, y copied over before forceSimulation); a
\* node that was not there gets its seed.
LayoutEffect_CarriesPositions ==
    LET Same(fns, i, j) ==
            simNodes[j].id = fns[i].id /\ simNodes[j].type = fns[i].type
        CarriedPos(fns, i) ==
            IF \E j \in 1..Len(simNodes) : Same(fns, i, j)
            THEN simPos[CHOOSE j \in 1..Len(simNodes) : Same(fns, i, j)]
            ELSE NewSimPos(fns)[i]
    IN
    IF ~LayoutDepsChanged THEN UNCHANGED <<simVars, domVars>>
    ELSE IF LayoutGuard(nextFilteredNodes, size')
    THEN /\ timer' = IF live THEN StopTimer(timer) ELSE timer
         /\ live' = FALSE
         /\ UNCHANGED <<simNodes, simPos, alpha, alphaTarget, dragging, domVars>>
    ELSE LET fls == nextFilteredLinks
             fns == nextFilteredNodes
         IN  /\ simNodes' = NewSimNodes(fns)
             /\ simPos' = [i \in 1..Len(fns) |-> CarriedPos(fns, i)]
             /\ alpha' = AlphaInitial
             /\ alphaTarget' = 0
             /\ timer' = "running"
             /\ dragging' = {}
             /\ live' = TRUE
             /\ svg' = Render(fns, fls)
             /\ forces' = ForcesOf(fns, fls, size')
             /\ zoom' = zoom

\* The layout effect of the render that follows a state change: the cleanup
\* of the previous run (simulation.stop(), when that run built a simulation),
\* then the body.  At a guard the body returns before svg.selectAll("*")
\* .remove(): the circles of the previous simulation stay in the SVG with
\* their drag handlers, and no cleanup is registered.  Past the guards the
\* SVG is cleared and a new simulation is built on fresh copies of the
\* visible nodes.
LayoutEffect ==
    IF ~LayoutDepsChanged THEN UNCHANGED <<simVars, domVars>>
    ELSE IF LayoutGuard(nextFilteredNodes, size')
    THEN /\ timer' = IF live THEN StopTimer(timer) ELSE timer
         /\ live' = FALSE
         /\ UNCHANGED <<simNodes, simPos, alpha, alphaTarget, dragging, domVars>>
    ELSE LET fls == nextFilteredLinks
             fns == nextFilteredNodes
         IN  /\ simNodes' = NewSimNodes(fns)
             /\ simPos' = NewSimPos(fns)
             /\ alpha' = AlphaInitial
             /\ alphaTarget' = 0
             /\ timer' = "running"
             /\ dragging' = {}
             /\ live' = TRUE
             /\ svg' = Render(fns, fls)
             /\ forces' = ForcesOf(fns, fls, size')
             /\ zoom' = zoom

\* Values the <select> handlers receive.  The handlers store e.target.value
\* as it comes: "All", ids of the input domain, the empty string (the value
\* of an option whose id is undefined) and one id that no graph holds.
NoSuchId == <<"z">>

CountryInputs    == {All, <<"a">>, <<"b">>, <<>>, NoSuchId}
DisciplineInputs == {All, <<"c">>, NoSuchId}
MedalInputs      == {All, <<"G">>, <<"S">>}

SetSelectedCountry(v) ==
    /\ MedalGraphMounted
    /\ selectedCountry' = v
    /\ UNCHANGED <<rows, medalsParse, graphData, selectedDiscipline,
                   selectedMedal, minCount, showOnlyConnected, size>>
    /\ LayoutEffect

SetSelectedDiscipline(v) ==
    /\ MedalGraphMounted
    /\ selectedDiscipline' = v
    /\ UNCHANGED <<rows, medalsParse, graphData, selectedCountry,
                   selectedMedal, minCount, showOnlyConnected, size>>
    /\ LayoutEffect

SetSelectedMedal(v) ==
    /\ MedalGraphMounted
    /\ selectedMedal' = v
    /\ UNCHANGED <<rows, medalsParse, graphData, selectedCountry,
                   selectedDiscipline, minCount, showOnlyConnected, size>>
    /\ LayoutEffect

\* The slider without its max attribute: any value offered is stored.
SetMinCount_NoMax(v) ==
    /\ MedalGraphMounted
    /\ minCount' = v
    /\ UNCHANGED <<rows, medalsParse, graphData, selectedCountry,
                   selectedDiscipline, selectedMedal, showOnlyConnected, size>>
    /\ LayoutEffect

\* <input type="range" min={1} max={maxCount} step={1}>
SetMinCount(v) ==
    /\ MedalGraphMounted
    /\ v \in 1..maxCount
    /\ minCount' = v
    /\ UNCHANGED <<rows, medalsParse, graphData, selectedCountry,
                   selectedDiscipline, selectedMedal, showOnlyConnected, size>>
    /\ LayoutEffect

SetShowOnlyConnected(b) ==
    /\ MedalGraphMounted
    /\ showOnlyConnected' = b
    /\ UNCHANGED <<rows, medalsParse, graphData, selectedCountry,
                   selectedDiscipline, selectedMedal, minCount, size>>
    /\ LayoutEffect

resetFilters ==
    /\ MedalGraphMounted
    /\ selectedCountry' = All
    /\ selectedDiscipline' = All
    /\ selectedMedal' = All
    /\ minCount' = 1
    /\ showOnlyConnected' = TRUE
    /\ UNCHANGED <<rows, medalsParse, graphData, size>>
    /\ LayoutEffect

\* The ResizeObserver callback: setSize keeps prev when nothing changed.
Resize(sz) ==
    /\ MedalGraphMounted
    /\ size' = sz
    /\ UNCHANGED <<rows, medalsParse, graphData, filterVars>>
    /\ LayoutEffect

-----------------------------------------------------------------------------
(* MedalGraph: the zoom behaviour of the <svg>, and the pointer of a drag  *)
(*                                                                         *)
(* Screen positions are counted in quarters of a pixel, like the           *)
(* translation of a transform: the point p of the simulation is displayed  *)
(* at k * p + (x, y).                                                      *)
(***************************************************************************)

\* transform.apply(p)
ApplyT(t, p) == [x |-> t.k * p.x + t.x, y |-> t.k * p.y + t.y]

\* transform.invert(s)
InvertT(t, s) == [x |-> (s.x - t.x) \div t.k, y |-> (s.y - t.y) \div t.k]

\* The scale extent with other limits ([0.25, 12]).
ConstrainScale_WideExtent(k) == clamp(k, 1, 48)

\* scaleExtent([0.5, 6]): Math.max(0.5, Math.min(6, k))
ConstrainScale(k) == clamp(k, ScaleMin, ScaleMax)

PanRange == (0 - MaxPan)..MaxPan

\* The zoom behaviour is on the <svg> once a run of the layout effect has
\* got past its guards (svg.call(d3.zoom()...)); it stays there, whatever
\* the later runs do.
ZoomAttached == timer # "none"

\* .on("zoom", (event) => { g.attr("transform", event.transform); }), after
\* d3-zoom has stored the new transform on the <svg>.
Zoomed(t) ==
    /\ zoom' = t
    /\ svg' = [svg EXCEPT !.transform = t]
    /\ UNCHANGED <<rows, medalsParse, graphData, filterVars, simVars, size, forces>>

\* A wheel step (or a pinch, or a double click) at the screen position p0:
\* the scale is doubled or halved within the extent, and the point under p0
\* stays under it.  A step that leaves the scale as it is, is ignored.
Wheel(up, p0) ==
    /\ ZoomAttached
    /\ LET k1 == ConstrainScale(IF up THEN zoom.k * 2 ELSE zoom.k \div 2)
           t  == [k |-> k1,
                  x |-> p0.x - ((p0.x - zoom.x) * k1) \div zoom.k,
                  y |-> p0.y - ((p0.y - zoom.y) * k1) \div zoom.k]
       IN  /\ k1 # zoom.k
           /\ t.x \in PanRange /\ t.y \in PanRange
           /\ Zoomed(t)

\* A pan: the pointer drags the background by (dx, dy).
Pan(dx, dy) ==
    /\ ZoomAttached
    /\ zoom.x + dx \in PanRange /\ zoom.y + dy \in PanRange
    /\ Zoomed([zoom EXCEPT !.x = @ + dx, !.y = @ + dy])

-----------------------------------------------------------------------------

InitFilterState ==
    /\ selectedCountry = All
    /\ selectedDiscipline = All
    /\ selectedMedal = All
    /\ minCount = 1
    /\ showOnlyConnected = TRUE

\* No simulation exists: the layout effect has not run, or has returned at
\* one of its guards (a container of size 0); the <svg> is empty.
NoSimulation ==
    /\ simNodes = <<>>
    /\ simPos = <<>>
    /\ alpha = 0
    /\ alphaTarget = 0
    /\ timer = "none"
    /\ dragging = {}
    /\ live = FALSE
    /\ svg = EmptySvg
    /\ zoom = Identity
    /\ forces = NoForces

InitBuild ==
    /\ rows \in BuildRowSeqs(MaxRows)
    /\ medalsParse = "pending"
    /\ graphData = EmptyGraph
    /\ InitFilterState
    /\ NoSimulation
    /\ size = ZeroSize

NextBuild == ParseComplete \/ ParseError

SpecBuild == InitBuild /\ [][NextBuild]_vars

InitDetail ==
    /\ rows \in DetailRowSeqs(MaxDetailRows)
    /\ medalsParse = "pending"
    /\ graphData = EmptyGraph
    /\ InitFilterState
    /\ NoSimulation
    /\ size = ZeroSize

SpecDetail == InitDetail /\ [][NextBuild]_vars

-----------------------------------------------------------------------------
(* The medal graph with its filter bar *)

NextFilter ==
    \/ ParseComplete
    \/ \E v \in CountryInputs : SetSelectedCountry(v)
    \/ \E v \in DisciplineInputs : SetSelectedDiscipline(v)
    \/ \E v \in MedalInputs : SetSelectedMedal(v)
    \/ \E v \in 1..MaxFilterRows : SetMinCount(v)
    \/ \E b \in BOOLEAN : SetShowOnlyConnected(b)
    \/ resetFilters

InitFilter ==
    /\ rows \in FilterRowSeqs(MaxFilterRows)
    /\ medalsParse = "pending"
    /\ graphData = EmptyGraph
    /\ InitFilterState
    /\ NoSimulation
    /\ size = ZeroSize

SpecFilter == InitFilter /\ [][NextFilter]_vars

-----------------------------------------------------------------------------
(* Claims about the graph builder, checked under SpecBuild *)

Built == medalsParse = "complete"

TripleOf(m) == <<m.country, m.discipline, m.medal_type>>

Triples == {TripleOf(rows[i]) : i \in 1..Len(rows)}

RecordCount(t) == Cardinality({i \in 1..Len(rows) : TripleOf(rows[i]) = t})

\* C1: the builder emits exactly one link per distinct (country, discipline,
\* medal_type) triple of the input, and that link's count is the number of
\* input records with that triple: the links and the triples are in a
\* one-to-one correspondence that matches each count.
C1_OneLinkPerTriple ==
    Built =>
        LET n == Len(graphData.links)
        IN  /\ n = Cardinality(Triples)
            /\ \E f \in [Triples -> 1..n] :
                  /\ \A t, u \in Triples : f[t] = f[u] => t = u
                  /\ \A t \in Triples : graphData.links[f[t]].count = RecordCount(t)

NodeIds(g) == {g.nodes[i].id : i \in 1..Len(g.nodes)}

\* C7: every link of the built graph has a source and a target that are each
\* the id of some node of the built node list.
C7_NoDanglingEndpoints ==
    Built =>
        \A i \in 1..Len(graphData.links) :
            /\ graphData.links[i].source \in NodeIds(graphData)
            /\ graphData.links[i].target \in NodeIds(graphData)

\* C8: the built node list holds no two nodes with the same id.
C8_UniqueNodeIds ==
    Built =>
        \A i, j \in 1..Len(graphData.nodes) :
            graphData.nodes[i].id = graphData.nodes[j].id => i = j

\* C9 (as claimed): building from an empty record sequence fails instead of
\* producing a graph: the callback never completes with a graph stored.
C9_EmptyInputFails == ~(rows = <<>> /\ Built)

\* C9 (amended): building from an empty record sequence completes without an
\* error and stores the empty graph (no nodes, no links), and the render gate
\* then leaves MedalGraph unmounted; a non-empty input always mounts it.
C9_EmptyInputGivesEmptyGraph ==
    /\ (rows = <<>> /\ Built) => (graphData = EmptyGraph /\ ~MedalGraphMounted)
    /\ (rows # <<>> /\ Built) => MedalGraphMounted
    /\ ~Built => ~MedalGraphMounted

C9_Witness == rows = <<>> /\ Built /\ graphData = EmptyGraph

-----------------------------------------------------------------------------
(* Claims about the links' details and order, checked under SpecDetail *)

\* The indices of the records of a triple, in input order.
RecordsOf(t) == SelectSeq([i \in 1..Len(rows) |-> i], LAMBDA i : TripleOf(rows[i]) = t)

NamesOf(t)  == [k \in 1..Len(RecordsOf(t)) |-> rows[RecordsOf(t)[k]].name]
EventsOf(t) == [k \in 1..Len(RecordsOf(t)) |-> rows[RecordsOf(t)[k]].event]

\* The link carries the details of the records of triple t: as many entries
\* as records, in input order (joined by ", " as the builder joins them).
HasDetailsOf(l, t) ==
    /\ l.count = Len(RecordsOf(t))
    /\ l.athlete = Join(NamesOf(t))
    /\ l.event = Join(EventsOf(t))

\* C15: every built link carries the athlete names and the event names of
\* exactly the records of its own (country, discipline, medal_type) group,
\* one entry per record, in input order: the links and the triples are in a
\* one-to-one correspondence in which each link has the details of its triple.
C15_DetailsOfOwnGroup ==
    Built =>
        LET n == Len(graphData.links)
        IN  /\ n = Cardinality(Triples)
            /\ \E f \in [Triples -> 1..n] :
                  /\ \A t, u \in Triples : f[t] = f[u] => t = u
                  /\ \A t \in Triples : HasDetailsOf(graphData.links[f[t]], t)

\* The distinct triples of the input, by first appearance.
TriplesInOrder == Dedup([i \in 1..Len(rows) |-> TripleOf(rows[i])])

\* C16: the built graph is a function of the record sequence alone, and its
\* links come in the order of first appearance of their (country, discipline,
\* medal_type) triple: the k-th link is the link of the k-th distinct triple.
C16_LinksInFirstAppearanceOrder ==
    Built =>
        /\ graphData = Build(rows)
        /\ Len(graphData.links) = Len(TriplesInOrder)
        /\ \A k \in 1..Len(graphData.links) :
              k <= Len(TriplesInOrder) =>
                  HasDetailsOf(graphData.links[k], TriplesInOrder[k])

-----------------------------------------------------------------------------
(* Claims about the filter, checked under SpecFilter *)

\* C2: the filter is idempotent: filtering the filtered graph (filteredNodes,
\* filteredLinks) again with the same parameters gives the same links and
\* the same nodes.
C2_FilterIdempotent ==
    LET fl2 == filteredLinksOf(filteredLinks, selectedCountry, selectedDiscipline,
                               selectedMedal, minCount)
        fn2 == filteredNodesOf(filteredNodes, filteredNodeIdsOf(fl2), showOnlyConnected)
    IN  fl2 = filteredLinks /\ fn2 = filteredNodes

C2_Witness ==
    /\ MedalGraphMounted
    /\ 0 < Len(filteredLinks) /\ Len(filteredLinks) < Len(graphData.links)
    /\ 0 < Len(filteredNodes) /\ Len(filteredNodes) < Len(graphData.nodes)

VisibleAt(min) ==
    filteredLinksOf(graphData.links, selectedCountry, selectedDiscipline,
                    selectedMedal, min)

\* C3: with the other parameters fixed, for thresholds m1 <= m2 the links
\* visible at m2 are among the links visible at m1, and are no more than them.
C3_MinCountMonotone ==
    \A m1, m2 \in 1..(maxCount + 1) :
        m1 <= m2 =>
            /\ Range(VisibleAt(m2)) \subseteq Range(VisibleAt(m1))
            /\ Len(VisibleAt(m2)) <= Len(VisibleAt(m1))

C3_Witness ==
    /\ minCount = 2
    /\ 0 < Len(filteredLinks)
    /\ Len(filteredLinks) < Len(VisibleAt(1))

\* C4: with showOnlyConnected, every node of filteredNodes is an endpoint of
\* at least one link of filteredLinks.
C4_VisibleNodesConnected ==
    showOnlyConnected =>
        \A i \in 1..Len(filteredNodes) :
            \E j \in 1..Len(filteredLinks) :
                \/ filteredLinks[j].source = filteredNodes[i].id
                \/ filteredLinks[j].target = filteredNodes[i].id

C4_Witness ==
    /\ showOnlyConnected
    /\ 0 < Len(filteredLinks) /\ Len(filteredLinks) < Len(graphData.links)
    /\ 0 < Len(filteredNodes) /\ Len(filteredNodes) < Len(graphData.nodes)

FocusSet(selected) == selected # All

LinkEndpoints == filteredNodeIdsOf(graphData.links)

PredicateActive(selected) == FocusSet(selected) /\ selected # <<>>

\* The four predicates of the filter, by number.
LinkPredicate(k, l) ==
    CASE k = 1 -> l.count >= minCount
      [] k = 2 -> PredicateActive(selectedMedal) => l.medal = selectedMedal
      [] k = 3 -> PredicateActive(selectedCountry)
                      => selectedCountry \in {l.source, l.target}
      [] k = 4 -> PredicateActive(selectedDiscipline)
                      => selectedDiscipline \in {l.source, l.target}

PredicateOrders == Permutations(1..4)

\* The predicates applied one after the other, as successive filters.
ApplyInOrder(p, ls) ==
    SelectSeq(SelectSeq(SelectSeq(SelectSeq(ls,
        LAMBDA l : LinkPredicate(p[1], l)),
        LAMBDA l : LinkPredicate(p[2], l)),
        LAMBDA l : LinkPredicate(p[3], l)),
        LAMBDA l : LinkPredicate(p[4], l))

SatisfiesAll(l) == \A k \in 1..4 : LinkPredicate(k, l)

\* C11: the visible links are exactly the links of the full graph that
\* satisfy all of the active predicates (count >= minCount; medal, country
\* focus and discipline focus when set), in whatever order the predicates are
\* applied, and with showOnlyConnected the visible nodes are the nodes that
\* are an endpoint of a link of this final set, of no intermediate one.
C11_VisibleLinksAreConjunction ==
    LET visible == filteredLinks
        final   == {l \in Range(graphData.links) : SatisfiesAll(l)}
    IN  /\ \A p \in PredicateOrders : ApplyInOrder(p, graphData.links) = visible
        /\ Range(visible) = final
        /\ showOnlyConnected =>
              Range(filteredNodes) =
                  {n \in Range(graphData.nodes) :
                      \E l \in final : n.id \in {l.source, l.target}}

\* Two predicates are active, each alone keeps more links than both together,
\* and a node is pruned that an intermediate link set would have kept.
C11_Witness ==
    /\ showOnlyConnected
    /\ 0 < Len(filteredLinks)
    /\ \E j, k \in 1..4 :
          /\ j # k
          /\ \A h \in {j, k} :
                LET kept == SelectSeq(graphData.links, LAMBDA l : LinkPredicate(h, l))
                IN  /\ Len(filteredLinks) < Len(kept)
                    /\ Len(kept) < Len(graphData.links)
                    /\ filteredNodeIdsOf(kept) # filteredNodeIds
    /\ Len(filteredNodes) < Len(graphData.nodes)

\* C12: with showOnlyConnected the ids of the visible nodes are exactly the
\* endpoints of the visible links, and without it the visible nodes are the
\* full node list, unchanged.
C12_VisibleNodesAreEndpoints ==
    MedalGraphMounted =>
        /\ showOnlyConnected =>
              {filteredNodes[i].id : i \in 1..Len(filteredNodes)} = filteredNodeIds
        /\ ~showOnlyConnected => filteredNodes = graphData.nodes

\* a is b with some elements left out: the elements of a are matched, in
\* order, by elements of b at increasing positions.
IsSubsequence(a, b) ==
    LET Matched[j \in 0..Len(b)] ==
            IF j = 0 THEN 0
            ELSE IF Matched[j-1] < Len(a) /\ b[j] = a[Matched[j-1] + 1]
                 THEN Matched[j-1] + 1
                 ELSE Matched[j-1]
    IN  Matched[Len(b)] = Len(a)

\* C17: for every value of the filter parameters, filteredLinks is a
\* subsequence of the full link list and filteredNodes is a subsequence of
\* the full node list: the relative order of the kept elements is preserved.
C17_FilterPreservesOrder ==
    /\ IsSubsequence(filteredLinks, graphData.links)
    /\ IsSubsequence(filteredNodes, graphData.nodes)

\* The filter has dropped the middle one of three links and a node between
\* two kept ones.
C17_Witness ==
    /\ Len(graphData.links) = 3
    /\ filteredLinks = <<graphData.links[1], graphData.links[3]>>
    /\ graphData.links[1] # graphData.links[3]
    /\ Len(graphData.nodes) = 3
    /\ filteredNodes = <<graphData.nodes[1], graphData.nodes[3]>>

\* C27: whatever the slider, the Reset button and the load of the link list
\* have done, the threshold of the filter is at least 1 and at most
\* max(1, largest link count); Reset puts every filter parameter back to its
\* default: country, discipline and medal 'All', minCount 1, showOnlyConnected
\* true.
C27_MinCountInRangeResetRestores ==
    /\ [](1 <= minCount /\ minCount <= maxCount)
    /\ [](maxCount >= 1 /\
          \A i \in 1..Len(graphData.links) : graphData.links[i].count <= maxCount)
    /\ [][resetFilters => filterVars' = <<All, All, All, 1, TRUE>>]_vars

\* The slider is at the top of a range that goes beyond 1, under a focus.
C27_Witness ==
    /\ maxCount > 1
    /\ minCount = maxCount
    /\ selectedCountry # All
    /\ ~showOnlyConnected

-----------------------------------------------------------------------------
(* The simulation's timer and the drag handlers *)

\* The tick without the decay: alpha stays where it is.
AlphaStep_NoDecay(a, target) == a

\* alpha += (alphaTarget - alpha) * alphaDecay
AlphaStep(a, target) ==
    IF a > target
    THEN a - ((a - target + AlphaDecayDivisor - 1) \div AlphaDecayDivisor)
    ELSE a + ((target - a + AlphaDecayDivisor - 1) \div AlphaDecayDivisor)

\* One step of the simulation's timer: tick(), then stop when alpha < alphaMin.
\* A node with fx == null is integrated (x += vx), a pinned one is put at fx;
\* likewise for y.
Tick ==
    /\ timer = "running"
    /\ alpha' = AlphaStep(alpha, alphaTarget)
    /\ timer' = IF alpha' < AlphaMin THEN "stopped" ELSE "running"
    /\ simPos' \in [1..Len(simNodes) -> [x : Coords, y : Coords]]
    /\ \A i \in 1..Len(simNodes) :
          /\ simNodes[i].fx # NoPin => simPos'[i].x = simNodes[i].fx
          /\ simNodes[i].fy # NoPin => simPos'[i].y = simNodes[i].fy
    /\ UNCHANGED <<rows, medalsParse, graphData, filterVars, simNodes,
                   alphaTarget, dragging, live, size, domVars>>

\* d.x ?? 0: a coordinate that is undefined (or null) gives 0.
OrZero(v) == IF v = NoPin THEN 0 ELSE v

\* The drag start handler with simulation.alpha(0.2) for alphaTarget(0.2).
DragStart_SetsAlpha(i) ==
    /\ timer # "none"
    /\ i \in 1..Len(simNodes)
    /\ i \notin dragging
    /\ IF dragging = {}
       THEN alpha' = AlphaTargetDrag /\ timer' = "running" /\ UNCHANGED alphaTarget
       ELSE UNCHANGED <<alpha, alphaTarget, timer>>
    /\ simNodes' = [simNodes EXCEPT ![i].fx = OrZero(simPos[i].x),
                                  ![i].fy = OrZero(simPos[i].y)]
    /\ dragging' = dragging \cup {i}
    /\ UNCHANGED <<rows, medalsParse, graphData, filterVars, simPos, live, size, domVars>>

\* The drag start handler with the second assignment lost (d.fy not set).
DragStart_PinsXOnly(i) ==
    /\ timer # "none"
    /\ i \in 1..Len(simNodes)
    /\ i \notin dragging
    /\ IF dragging = {}
       THEN alphaTarget' = AlphaTargetDrag /\ timer' = "running"
       ELSE UNCHANGED <<alphaTarget, timer>>
    /\ simNodes' = [simNodes EXCEPT ![i].fx = OrZero(simPos[i].x)]
    /\ dragging' = dragging \cup {i}
    /\ UNCHANGED <<rows, medalsParse, graphData, filterVars, simPos, alpha,
                   live, size, domVars>>

\* The drag start handler on a datum that is the node of the props itself
\* (simNodes not copied from filteredNodes): the pin is written into the graph.
DragStart_PinsGraphNode(i) ==
    /\ timer # "none"
    /\ i \in 1..Len(simNodes)
    /\ i \notin dragging
    /\ IF dragging = {}
       THEN alphaTarget' = AlphaTargetDrag /\ timer' = "running"
       ELSE UNCHANGED <<alphaTarget, timer>>
    /\ simNodes' = [simNodes EXCEPT ![i].fx = OrZero(simPos[i].x),
                                  ![i].fy = OrZero(simPos[i].y)]
    /\ graphData' =
          [graphData EXCEPT !.nodes =
              [k \in 1..Len(graphData.nodes) |->
                  IF graphData.nodes[k].id = simNodes[i].id
                  THEN simNodes'[i]
                  ELSE graphData.nodes[k]]]
    /\ dragging' = dragging \cup {i}
    /\ UNCHANGED <<rows, medalsParse, filterVars, simPos, alpha, live, size, domVars>>

\* The drag start handler without .restart(): the target is raised and a
\* stopped timer stays stopped.
DragStart_NoRestart(i) ==
    /\ timer # "none"
    /\ i \in 1..Len(simNodes)
    /\ i \notin dragging
    /\ IF dragging = {}
       THEN alphaTarget' = AlphaTargetDrag /\ UNCHANGED timer
       ELSE UNCHANGED <<alphaTarget, timer>>
    /\ simNodes' = [simNodes EXCEPT ![i].fx = OrZero(simPos[i].x),
                                  ![i].fy = OrZero(simPos[i].y)]
    /\ dragging' = dragging \cup {i}
    /\ UNCHANGED <<rows, medalsParse, graphData, filterVars, simPos, alpha,
                   live, size, domVars>>

\* .on("start", (event, d) => { if (!event.active) simulation.alphaTarget(0.2)
\* .restart(); d.fx = d.x ?? 0; d.fy = d.y ?? 0; })
\* event.active is the number of other gestures still active.
DragStart(i) ==
    /\ timer # "none"
    /\ i \in 1..Len(simNodes)
    /\ i \notin dragging
    /\ IF dragging = {}
       THEN alphaTarget' = AlphaTargetDrag /\ timer' = "running"
       ELSE UNCHANGED <<alphaTarget, timer>>
    /\ simNodes' = [simNodes EXCEPT ![i].fx = OrZero(simPos[i].x),
                                  ![i].fy = OrZero(simPos[i].y)]
    /\ dragging' = dragging \cup {i}
    /\ UNCHANGED <<rows, medalsParse, graphData, filterVars, simPos, alpha,
                   live, size, domVars>>

\* .on("drag", (event, d) => { d.fx = event.x; d.fy = event.y; })
DragMove(i, ex, ey) ==
    /\ i \in dragging
    /\ simNodes' = [simNodes EXCEPT ![i].fx = ex, ![i].fy = ey]
    /\ UNCHANGED <<rows, medalsParse, graphData, filterVars, simPos, alpha,
                   alphaTarget, timer, dragging, live, size, domVars>>

\* The drag end handler with simulation.alpha(0) for alphaTarget(0): the
\* energy is reset at once.
DragEnd_ZeroesAlpha(i) ==
    /\ i \in dragging
    /\ dragging' = dragging \ {i}
    /\ alpha' = IF dragging' = {} THEN 0 ELSE alpha
    /\ simNodes' = [simNodes EXCEPT ![i].fx = NoPin, ![i].fy = NoPin]
    /\ UNCHANGED <<rows, medalsParse, graphData, filterVars, simPos, alphaTarget,
                   timer, live, size, domVars>>

\* The drag end handler without the test of event.active: the target is
\* lowered by every drag end.
DragEnd_LowersTargetAlways(i) ==
    /\ i \in dragging
    /\ dragging' = dragging \ {i}
    /\ alphaTarget' = 0
    /\ simNodes' = [simNodes EXCEPT ![i].fx = NoPin, ![i].fy = NoPin]
    /\ UNCHANGED <<rows, medalsParse, graphData, filterVars, simPos, alpha, timer,
                   live, size, domVars>>

\* .on("end", (event, d) => { if (!event.active) simulation.alphaTarget(0);
\* d.fx = null; d.fy = null; })
DragEnd(i) ==
    /\ i \in dragging
    /\ dragging' = dragging \ {i}
    /\ alphaTarget' = IF dragging' = {} THEN 0 ELSE alphaTarget
    /\ simNodes' = [simNodes EXCEPT ![i].fx = NoPin, ![i].fy = NoPin]
    /\ UNCHANGED <<rows, medalsParse, graphData, filterVars, simPos, alpha, timer,
                   live, size, domVars>>

\* The rows of the graph that is laid out: one country, one discipline.
SimRows ==
    <<[country |-> <<"a">>, discipline |-> <<"c">>, medal_type |-> <<"G">>,
       name |-> <<"x">>, event |-> <<"e">>]>>

\* The state once the layout effect has run for the first render of the
\* mounted graph, in a container of non-zero size.
InitSim ==
    /\ rows = SimRows
    /\ medalsParse = "complete"
    /\ graphData = Build(rows)
    /\ InitFilterState
    /\ simNodes = NewSimNodes(filteredNodes)
    /\ simPos = NewSimPos(filteredNodes)
    /\ alpha = AlphaInitial
    /\ alphaTarget = 0
    /\ timer = "running"
    /\ dragging = {}
    /\ live = TRUE
    /\ size = SimSize
    /\ svg = Render(filteredNodes, filteredLinks)
    /\ zoom = Identity
    /\ forces = ForcesOf(filteredNodes, filteredLinks, size)

NextSim ==
    \/ Tick
    \/ \E i \in 1..Len(simNodes) : DragStart(i)
    \/ \E i \in 1..Len(simNodes) : \E ex, ey \in Coords : DragMove(i, ex, ey)
    \/ \E i \in 1..Len(simNodes) : DragEnd(i)

SpecSim == InitSim /\ [][NextSim]_vars

\* The simulation's timer calls its step on every animation frame for as
\* long as it runs: a tick that is possible does not wait for ever.
SpecSimFair == SpecSim /\ WF_vars(Tick)

-----------------------------------------------------------------------------
(* The medal graph from load on: the container is measured, the filter bar *)
(* replaces the visible subgraph, the simulation ticks and nodes are       *)
(* dragged.                                                                *)

InitLayout ==
    /\ rows = SimRows
    /\ medalsParse = "pending"
    /\ graphData = EmptyGraph
    /\ InitFilterState
    /\ NoSimulation
    /\ size = ZeroSize

NextLayout ==
    \/ ParseComplete
    \/ \E sz \in SizeInputs : Resize(sz)
    \/ \E v \in MedalInputs : SetSelectedMedal(v)
    \/ \E b \in BOOLEAN : SetShowOnlyConnected(b)
    \/ resetFilters
    \/ Tick
    \/ \E i \in 1..Len(simNodes) : DragStart(i)
    \/ \E i \in 1..Len(simNodes) : DragMove(i, MaxCoord, MaxCoord)
    \/ \E i \in 1..Len(simNodes) : DragEnd(i)

SpecLayout == InitLayout /\ [][NextLayout]_vars

\* The pointer of a drag taken as it is on the screen (event.sourceEvent's
\* position), not mapped into the group's coordinates.
PointerDrag_ScreenCoords(i, s) == DragMove(i, s.x, s.y)

\* A pointer move at the screen position s during the drag of node i.  The
\* drag behaviour gives its handler the pointer in the coordinates of the
\* circles' parent, that is through the inverse of the transform the group
\* has (the node is taken to be held at its centre), then the handler runs.
PointerDrag(i, s) ==
    LET event == InvertT(svg.transform, s)
    IN  DragMove(i, event.x, event.y)

\* The screen positions at which the points of the simulation are displayed.
PointerInputs == {ApplyT(svg.transform, [x |-> px, y |-> py]) : px, py \in Coords}

FocalInputs == {[x |-> 0, y |-> 0], [x |-> 1, y |-> 1]}

PanInputs == {<<1, 0>>, <<0 - 1, 0>>, <<0, 1>>, <<0, 0 - 1>>}

-----------------------------------------------------------------------------
(* The laid-out graph under zoom and pan gestures, drags and changes of    *)
(* the medal filter.  There is one pointer (a mouse): a drag starts when   *)
(* no other is under way.                                                  *)

NextView ==
    \/ \E up \in BOOLEAN : \E p0 \in FocalInputs : Wheel(up, p0)
    \/ \E d \in PanInputs : Pan(d[1], d[2])
    \/ \E v \in MedalInputs : SetSelectedMedal(v)
    \/ \E i \in 1..Len(simNodes) : dragging = {} /\ DragStart(i)
    \/ \E i \in 1..Len(simNodes) : \E s \in PointerInputs : PointerDrag(i, s)
    \/ \E i \in 1..Len(simNodes) : DragEnd(i)

SpecView == InitSim /\ [][NextView]_vars

-----------------------------------------------------------------------------
(* The medal graph as it is drawn: graphs with a node of high degree (a    *)
(* star) or a link of high count, under the filter bar and the container's *)
(* resizes.                                                                *)

\* An id made of n letters.
Letters(c, n) == [k \in 1..n |-> c]

\* Every other record is a gold medal.
MedalAt(j) == IF j % 2 = 1 THEN <<"G">> ELSE <<"S">>

\* n records around one centre: one country with n disciplines, or one
\* discipline with n countries.
StarRows(countryCentre, n) ==
    [j \in 1..n |->
        [country    |-> IF countryCentre THEN <<"a">> ELSE Letters("n", j),
         discipline |-> IF countryCentre THEN Letters("d", j) ELSE <<"c">>,
         medal_type |-> MedalAt(j),
         name |-> <<"x">>, event |-> <<"e">>]]

\* n gold medals and one silver medal of one country in one discipline.
HeavyRows(n) ==
    [j \in 1..(n + 1) |->
        [country |-> <<"a">>, discipline |-> <<"c">>,
         medal_type |-> IF j <= n THEN <<"G">> ELSE <<"S">>,
         name |-> <<"x">>, event |-> <<"e">>]]

RenderRowSeqs ==
    {StarRows(b, n) : b \in BOOLEAN, n \in 1..MaxDegree}
        \cup {HeavyRows(n) : n \in 1..MaxWeight}

InitRender ==
    /\ rows \in RenderRowSeqs
    /\ medalsParse = "pending"
    /\ graphData = EmptyGraph
    /\ InitFilterState
    /\ NoSimulation
    /\ size = ZeroSize

NextRender ==
    \/ ParseComplete
    \/ \E sz \in SizeInputs : Resize(sz)
    \/ \E v \in MedalInputs : SetSelectedMedal(v)
    \/ \E v \in 1..MaxWeight : SetMinCount(v)
    \/ \E b \in BOOLEAN : SetShowOnlyConnected(b)
    \/ resetFilters

SpecRender == InitRender /\ [][NextRender]_vars

-----------------------------------------------------------------------------
(* Claims about the simulation, checked under SpecSim *)

\* C5: while a node is pinned by a drag (from drag start, through every drag
\* move, until drag end), every tick leaves it exactly at its pinned
\* coordinate (fx, fy), which is not null; drag start pins the node where it
\* is, and drag end clears the pin, so that later ticks integrate the node's
\* position again.
C5_PinnedNodeHeld ==
    [][\A i \in 1..Len(simNodes) :
          /\ (i \in dragging /\ Tick) =>
                /\ simNodes[i].fx # NoPin /\ simNodes[i].fy # NoPin
                /\ simPos'[i].x = simNodes[i].fx
                /\ simPos'[i].y = simNodes[i].fy
          /\ DragStart(i) =>
                /\ simNodes'[i].fx = simPos[i].x
                /\ simNodes'[i].fy = simPos[i].y
          /\ DragEnd(i) =>
                /\ simNodes'[i].fx = NoPin /\ simNodes'[i].fy = NoPin
    ]_vars

\* A dragged node held, after a tick, at a pin away from where the layout put
\* it, while the other node has been moved by the forces.
C5_Witness ==
    \E i, j \in 1..Len(simNodes) :
        /\ i \in dragging /\ j \notin dragging
        /\ simNodes[i].fx # NoPin
        /\ simPos[i].x = simNodes[i].fx /\ simPos[i].y = simNodes[i].fy
        /\ <<simPos[i].x, simPos[i].y>> # <<InitialX(i - 1), InitialY(i - 1)>>
        /\ <<simPos[j].x, simPos[j].y>> # <<InitialX(j - 1), InitialY(j - 1)>>
        /\ alpha < AlphaInitial

Reheat == \E i \in 1..Len(simNodes) : DragStart(i) /\ dragging = {}

\* C6 (as claimed): alpha does not increase from tick to tick, and every
\* reheat (drag start) strictly increases alpha over its value just before.
C6_EnergyDecaysReheatRaises ==
    [][/\ Tick => alpha' <= alpha
       /\ Reheat => alpha' > alpha]_vars

\* C6 (amended): every tick moves alpha towards alphaTarget without passing
\* it, so alpha does not increase from tick to tick while no drag is active
\* (alphaTarget is then 0); a reheat (drag start) leaves alpha as it is, and
\* raises alphaTarget to 0.2 and restarts the timer, so that the ticks after
\* it raise alpha only when it was below 0.2.
C6_EnergyFollowsTarget ==
    [][/\ Tick =>
            /\ alpha >= alphaTarget => (alpha' <= alpha /\ alpha' >= alphaTarget)
            /\ alpha <= alphaTarget => (alpha' >= alpha /\ alpha' <= alphaTarget)
            /\ dragging = {} => (alphaTarget = 0 /\ alpha' <= alpha)
            /\ alpha > alphaTarget => alpha' < alpha
       /\ Reheat =>
            /\ alpha' = alpha
            /\ alphaTarget' = AlphaTargetDrag
            /\ timer' = "running"
    ]_vars

\* A reheat of a settled simulation: the target is raised and the timer runs,
\* and alpha is still below alphaMin.
C6_Witness ==
    /\ dragging # {}
    /\ alphaTarget = AlphaTargetDrag
    /\ timer = "running"
    /\ alpha < AlphaMin

\* C20: a drag start on node i sets its pin (fx, fy) to its current position
\* (0 for a coordinate that is undefined) and leaves the other nodes and all
\* positions as they are; when no other drag is active it raises alphaTarget
\* to 0.2 and makes the timer run, also when the simulation had settled, and
\* when another drag is active it leaves alphaTarget and the timer alone.
C20_DragStartPinsAndReheats ==
    [][\A i \in 1..Len(simNodes) :
          DragStart(i) =>
              /\ simNodes'[i].fx = OrZero(simPos[i].x)
              /\ simNodes'[i].fy = OrZero(simPos[i].y)
              /\ simNodes'[i].fx \in Coords /\ simNodes'[i].fy \in Coords
              /\ \A j \in 1..Len(simNodes) : j # i => simNodes'[j] = simNodes[j]
              /\ simPos' = simPos
              /\ dragging' = dragging \cup {i}
              /\ dragging = {} => (alphaTarget' = AlphaTargetDrag /\ timer' = "running")
              /\ dragging # {} => (alphaTarget' = alphaTarget /\ timer' = timer)
    ]_vars

\* A settled simulation reheated by the start of a single drag: the timer
\* runs again, and the dragged node is pinned where it was, away from its
\* seed.
C20_Witness ==
    \E i \in 1..Len(simNodes) :
        /\ dragging = {i}
        /\ alpha < AlphaMin
        /\ timer = "running"
        /\ alphaTarget = AlphaTargetDrag
        /\ simNodes[i].fx = simPos[i].x /\ simNodes[i].fy = simPos[i].y
        /\ simPos[i] # NewSimPos(filteredNodes)[i]

\* C21: a drag end on node i clears its pin (fx, fy become null) and leaves
\* the energy at its current value, the positions, the timer and the other
\* nodes as they are; it is the energy target that returns to 0, when no
\* other drag remains active, and from then on every tick lowers the energy
\* towards 0 (strictly, while it is above 0) without passing it.
C21_DragEndClearsPinKeepsEnergy ==
    [][/\ \A i \in 1..Len(simNodes) :
             DragEnd(i) =>
                 /\ simNodes'[i].fx = NoPin /\ simNodes'[i].fy = NoPin
                 /\ alpha' = alpha
                 /\ timer' = timer
                 /\ simPos' = simPos
                 /\ \A j \in 1..Len(simNodes) : j # i => simNodes'[j] = simNodes[j]
                 /\ dragging' = {} => alphaTarget' = 0
       /\ (Tick /\ dragging = {}) =>
             /\ alphaTarget = 0
             /\ alpha' <= alpha /\ alpha' >= 0
             /\ alpha > 0 => alpha' < alpha
    ]_vars

\* A drag has ended after two ticks: no node is pinned, the target is back
\* at 0, and the energy is the one those ticks left, not zero.
C21_Witness ==
    /\ dragging = {}
    /\ \A i \in 1..Len(simNodes) : simNodes[i].fx = NoPin /\ simNodes[i].fy = NoPin
    /\ alphaTarget = 0
    /\ timer = "running"
    /\ alpha = AlphaStep(AlphaStep(AlphaInitial, AlphaTargetDrag), AlphaTargetDrag)
    /\ alpha > AlphaTargetDrag

\* C29: with drags active on several nodes, in any interleaving of their
\* start, move and end events, alphaTarget is 0.2 exactly while at least one
\* drag is active, and returns to 0 only with the end of the last one; a drag
\* event on node i writes the pin of node i alone: the end of one drag clears
\* its own node's pin and leaves the nodes still dragged pinned as they were.
C29_ConcurrentDragsKeepTargetAndPins ==
    /\ [](dragging # {} <=> alphaTarget = AlphaTargetDrag)
    /\ [](dragging = {} <=> alphaTarget = 0)
    /\ [][\A i \in 1..Len(simNodes) :
             /\ DragEnd(i) =>
                   /\ simNodes'[i].fx = NoPin /\ simNodes'[i].fy = NoPin
                   /\ \A j \in dragging \ {i} :
                         /\ simNodes'[j] = simNodes[j]
                         /\ simNodes'[j].fx # NoPin /\ simNodes'[j].fy # NoPin
                   /\ alphaTarget' = IF dragging \ {i} = {} THEN 0 ELSE AlphaTargetDrag
             /\ (DragStart(i) \/ \E ex, ey \in Coords : DragMove(i, ex, ey)) =>
                   /\ \A j \in 1..Len(simNodes) : j # i => simNodes'[j] = simNodes[j]
                   /\ dragging # {} => alphaTarget' = alphaTarget
         ]_vars

\* Two drags are active at once, each node held at its own pin, the two pins
\* apart, and the ticks have brought the energy to the target of the drags.
C29_Witness ==
    \E i, j \in dragging :
        /\ i # j
        /\ simNodes[i].fx # simNodes[j].fx
        /\ simPos[i].x = simNodes[i].fx /\ simPos[j].x = simNodes[j].fx
        /\ alphaTarget = AlphaTargetDrag
        /\ alpha = AlphaTargetDrag

\* The simulation has settled: alpha is below alphaMin and the timer has
\* stopped, so that no tick updates a position.
Settled == timer = "stopped" /\ alpha < AlphaMin

\* C22: with the visible subgraph as it is, a running simulation with no drag
\* active eventually settles, unless a drag starts before; once settled it
\* stays settled, its positions and its energy as they are, until a reheat
\* (a drag start with no other drag active); and while at least one drag is
\* active it runs and has not settled.
C22_SettlesUnlessDragged ==
    /\ (timer = "running" /\ dragging = {}) ~> (Settled \/ dragging # {})
    /\ [][Settled =>
             /\ ~Tick
             /\ Settled' => (simPos' = simPos /\ alpha' = alpha)
             /\ ~Settled' => Reheat]_vars
    /\ [](dragging # {} => (timer = "running" /\ ~Settled))

\* The simulation has settled after its ticks moved a node, no drag active.
C22_Witness ==
    /\ Settled
    /\ dragging = {}
    /\ alphaTarget = 0
    /\ simPos # NewSimPos(filteredNodes)

-----------------------------------------------------------------------------
(* Claims about the layout effect, checked under SpecLayout *)

\* A simulation has been built and the layout effect has since run again
\* without building another: the visible subgraph it was built for has been
\* replaced (by the empty one, or the container has lost its size).
Replaced == ~live /\ timer # "none"

\* C13: once the visible subgraph has been replaced, the simulation built for
\* the previous one never ticks again and its nodes are never written again,
\* whatever drag events arrive.
C13_ReplacedSimulationIsDead ==
    [][(Replaced /\ ~live') =>
          /\ ~Tick
          /\ timer' # "running"
          /\ simNodes' = simNodes
          /\ simPos' = simPos]_vars

\* C14: stopping is idempotent, and the stop of the cleanup takes effect at
\* once: it leaves the timer stopped and, when the simulation had already
\* settled, its whole state as it was; while the timer is stopped no tick
\* runs (positions and alpha stay as they are), and the timer runs again only
\* by a restart (drag start with no other drag active) or in a newly built
\* simulation.
C14_StopIdempotentNoTickUntilRestart ==
    [][/\ \A t \in {"running", "stopped"} : StopTimer(StopTimer(t)) = StopTimer(t)
       /\ (live /\ ~live') =>
             /\ timer' = "stopped"
             /\ timer = "stopped" =>
                   UNCHANGED <<simNodes, simPos, alpha, alphaTarget, timer, dragging>>
       /\ timer = "stopped" =>
             /\ ~Tick
             /\ timer' = "stopped" => (simPos' = simPos /\ alpha' = alpha)
             /\ timer' = "running" => (Reheat \/ (live' /\ LayoutDepsChanged))
    ]_vars

\* A simulation stopped by the cleanup in the middle of its run: it has
\* ticked, it has not settled, and its timer is stopped.
C14_Witness ==
    /\ Replaced
    /\ timer = "stopped"
    /\ alpha >= AlphaMin /\ alpha < AlphaInitial
    /\ dragging = {}

SimulationStep ==
    \/ Tick
    \/ \E i \in 1..Len(simNodes) :
          \/ DragStart(i)
          \/ DragEnd(i)
          \/ \E ex, ey \in Coords : DragMove(i, ex, ey)

Rebuilt == LayoutDepsChanged /\ live'

\* C19 (as claimed): when the visible subgraph changes, the nodes that were
\* in the previous simulation start the new one at the positions they had
\* there.
C19_PersistedNodesKeepPositions ==
    [][Rebuilt =>
          \A i \in 1..Len(simNodes') : \A j \in 1..Len(simNodes) :
              (simNodes'[i].id = simNodes[j].id /\ simNodes'[i].type = simNodes[j].type)
                  => simPos'[i] = simPos[j]]_vars

\* C19 (amended): every run of the layout effect that builds a simulation
\* seeds every node of the visible subgraph afresh, the nodes that were in
\* the previous simulation like the new ones: each node is an unpinned copy
\* at the position given by its index in the visible node list, and nothing
\* of the previous simulation (position, pin, drag, energy) is carried over.
C19_RebuildSeedsEveryNodeAfresh ==
    [][Rebuilt =>
          /\ Len(simNodes') = Len(filteredNodes') /\ Len(simPos') = Len(filteredNodes')
          /\ \A i \in 1..Len(simNodes') :
                /\ simNodes'[i].id = filteredNodes'[i].id
                /\ simPos'[i] = [x |-> InitialX(i - 1), y |-> InitialY(i - 1)]
                /\ simNodes'[i].fx = NoPin /\ simNodes'[i].fy = NoPin
          /\ dragging' = {}
          /\ alpha' = AlphaInitial /\ alphaTarget' = 0 /\ timer' = "running"
    ]_vars

\* A simulation built by a later run of the layout effect (the medal filter
\* is set) for the nodes of the first one, just seeded.
C19_Witness ==
    /\ live
    /\ selectedMedal # All
    /\ Len(simNodes) = Len(graphData.nodes)
    /\ simPos = NewSimPos(filteredNodes)
    /\ alpha = AlphaInitial

-----------------------------------------------------------------------------
(* Claims about the drawing, checked under SpecRender *)

\* The number of links of ls that have id as their source, plus the number
\* that have it as their target.
DegreeIn(ls, id) ==
    Cardinality({j \in 1..Len(ls) : ls[j].source = id})
        + Cardinality({j \in 1..Len(ls) : ls[j].target = id})

\* base + slope * d, kept within [lo, hi] (in tenths).
ClampedAffine(base, slope, d, lo, hi) ==
    IF base + slope * d < lo THEN lo
    ELSE IF base + slope * d > hi THEN hi
    ELSE base + slope * d

\* C23: in the drawing of the current visible subgraph, the radius of a
\* node is clamp(10 + 0.8 * degree, 12, 24) for a country and
\* clamp(7 + 0.6 * degree, 9, 18) for a discipline, where degree counts the
\* visible links the node is an endpoint of; so it is within its category's
\* [min, max], it does not decrease with the degree, and the collision
\* radius is the radius plus 4.
C23_RadiusClampedAffineInVisibleDegree ==
    live =>
        LET visible == filteredLinks
            shown   == filteredNodes
            deg     == [i \in 1..Len(shown) |-> DegreeIn(visible, shown[i].id)]
        IN  /\ Len(svg.circles) = Len(shown)
            /\ Len(forces.collide) = Len(shown)
            /\ \A i \in 1..Len(svg.circles) :
                  LET c == svg.circles[i]
                      d == deg[i]
                  IN  /\ c.id = shown[i].id /\ c.type = shown[i].type
                      /\ c.type = "country" =>
                            /\ c.r = ClampedAffine(100, 8, d, 120, 240)
                            /\ c.r >= 120 /\ c.r <= 240
                      /\ c.type = "discipline" =>
                            /\ c.r = ClampedAffine(70, 6, d, 90, 180)
                            /\ c.r >= 90 /\ c.r <= 180
                      /\ forces.collide[i] = c.r + 40
                      /\ \A j \in 1..Len(svg.circles) :
                            (svg.circles[j].type = c.type /\ d <= deg[j])
                                => c.r <= svg.circles[j].r

\* Under a medal filter, a country whose visible degree is below its degree
\* in the full graph is drawn with the radius of its visible degree, which
\* is neither the minimum nor the maximum, while in the full graph it would
\* have the maximum.
C23_Witness ==
    /\ live
    /\ selectedMedal # All
    /\ \E i \in 1..Len(svg.circles) :
          LET c == svg.circles[i]
              d == DegreeIn(filteredLinks, c.id)
          IN  /\ c.type = "country"
              /\ d < DegreeIn(graphData.links, c.id)
              /\ c.r = 100 + 8 * d
              /\ c.r > 120 /\ c.r < 240
              /\ ClampedAffine(100, 8, DegreeIn(graphData.links, c.id), 120, 240) = 240

\* The links ls with every count replaced by w.
Reweigh(ls, w) == [i \in 1..Len(ls) |-> [ls[i] EXCEPT !.count = w]]

\* C24: the forces of the simulation built for the current visible subgraph
\* do not depend on the links' counts: the link force has distance 130 and
\* strength 0.7 on every link, the repulsion is -260, the collision radii
\* are those of the nodes' degrees and the centre is that of the container,
\* and the same visible subgraph with other counts gets the same forces; a
\* link's count changes its stroke width alone, clamp(1.5 + 0.3 * count,
\* 1.5, 6).
C24_WeightNotInPhysics ==
    live =>
        LET visible == filteredLinks
            shown   == filteredNodes
        IN  /\ Len(forces.linkEnds) = Len(visible)
            /\ Len(svg.lines) = Len(visible)
            /\ forces.distance = 130
            /\ forces.charge = 0 - 260
            /\ forces.center = [x2 |-> size.width, y2 |-> HeightOf(size)]
            /\ \A i \in 1..Len(visible) :
                  /\ forces.linkEnds[i] = <<visible[i].source, visible[i].target>>
                  /\ forces.strength[i] = 7
                  /\ svg.lines[i].width =
                        ClampedAffine(15, 3, visible[i].count, 15, 60)
            /\ \A i \in 1..Len(shown) :
                  forces.collide[i] =
                      40 + (IF shown[i].type = "country"
                            THEN ClampedAffine(100, 8, DegreeIn(visible, shown[i].id),
                                               120, 240)
                            ELSE ClampedAffine(70, 6, DegreeIn(visible, shown[i].id),
                                               90, 180))
            /\ \A w \in {1, MaxWeight} :
                  ForcesOf(shown, Reweigh(visible, w), size) = forces

\* Two links between the same two nodes, one of count 1 and one of a count
\* that brings its stroke to the maximum width, in a running simulation whose
\* link force holds both with the same strength.
C24_Witness ==
    /\ live
    /\ \E i, j \in 1..Len(svg.lines) :
          /\ filteredLinks[i].count = 1 /\ filteredLinks[j].count > 1
          /\ forces.linkEnds[i] = forces.linkEnds[j]
          /\ forces.strength[i] = forces.strength[j]
          /\ svg.lines[i].width = 18
          /\ svg.lines[j].width = 60

\* C28: the circles and lines in the graph <svg> are those of the current
\* visible subgraph, node for node and link for link, as many as the status
\* line counts; when the visible node set is empty or the container has no
\* size, the <svg> holds no circle and no line.
C28_SvgShowsVisibleSubgraph ==
    LET visible == filteredLinks
        shown   == filteredNodes
    IN  IF LayoutGuard(shown, size)
        THEN svg.circles = <<>> /\ svg.lines = <<>>
        ELSE /\ Len(svg.circles) = Len(shown)
             /\ Len(svg.lines) = Len(visible)
             /\ \A i \in 1..Len(shown) :
                   /\ svg.circles[i].id = shown[i].id
                   /\ svg.circles[i].type = shown[i].type
             /\ \A i \in 1..Len(visible) :
                   /\ svg.lines[i].source = visible[i].source
                   /\ svg.lines[i].target = visible[i].target
                   /\ svg.lines[i].medal = visible[i].medal

-----------------------------------------------------------------------------
(* Claims about the view, checked under SpecView *)

\* C25: whatever wheel, pinch and pan gestures have been made, the scale of
\* the view transform, the one the zoom behaviour keeps and the one the
\* group is drawn with, is at least 0.5 and at most 6.
C25_ScaleWithinExtent ==
    /\ 2 * zoom.k >= ScaleOne /\ zoom.k <= 6 * ScaleOne
    /\ 2 * svg.transform.k >= ScaleOne /\ svg.transform.k <= 6 * ScaleOne

\* The view has been zoomed in as far as it goes, by a step that the extent
\* cut short, and panned; the group is drawn with that transform.
C25_Witness ==
    /\ zoom.k = 6 * ScaleOne
    /\ zoom.x # 0
    /\ svg.transform = zoom

\* A step of the zoom behaviour: the transform it keeps on the <svg> changes.
ZoomEvent == zoom' # zoom

\* The pin of node i, as a point of the simulation.
PinOf(sn, i) == [x |-> sn[i].fx, y |-> sn[i].fy]

C30_AppliedTransformIsStoredZoom == svg.transform = zoom

====
